---------------------------- MODULE Spec2Model ----------------------------
(***************************************************************************)
(* A model of the weekly movie digest bot (src/src/main.rs).               *)
(*                                                                         *)
(* Text is modelled as a sequence of characters, each character a one      *)
(* element token.  The two rating glyphs are written STAR (U+2605, the     *)
(* full star) and HALF (U+00BD, the one-half sign).  TAB stands for the    *)
(* white-space characters other than the space and the line feed, LF for   *)
(* the line feed.  An Option<T> is a sequence of length at most one.       *)
(***************************************************************************)
EXTENDS Integers, Sequences, FiniteSets, TLC

VARIABLES
    input,           \* argument handed to the function under test (pure specifications)
    output,          \* its result: None before the call, Some(result) after it
    pc,              \* where main and get_movie_map stand
    width,           \* number of fields of the CSV header record
    now,             \* the reading of Utc::now() at line 120
    seven_days_ago,  \* get_movie_map's local of that name
    movie_map,       \* get_movie_map's movie_map: clean title -> MovieGroup
    friend_name,     \* friend_name of the roster row whose items are processed, else ""
    result,          \* what get_movie_map returned: None while it runs
    rowsRead,        \* records taken from rdr.records()
    itemsRead,       \* items taken from channel.items(), over all feeds
    fetches,         \* calls of fetch_and_parse_feed
    failedFeeds,     \* calls of fetch_and_parse_feed that returned Err
    log,             \* history: the in-window items consumed, in processing order
    item,            \* history: the item the loop body ran for last, None outside the loops
    message,         \* what create_message returned: None before it ran
    sent             \* the body handed to the delivery sink: None before

pureVars == <<input, output>>
runVars == <<pc, width, now, seven_days_ago, movie_map, friend_name, result,
             rowsRead, itemsRead, fetches, failedFeeds, log, item, message, sent>>
vars == <<pureVars, runVars>>

-----------------------------------------------------------------------------
(* Characters and strings *)

STAR == "*"
HALF == "h"
SPACE == " "
TAB == "\t"
LF == "\n"
HYPHEN == "-"

None == <<>>
Some(v) == <<v>>

\* regex class \s : Unicode white space
IsWhitespace(c) == c \in {SPACE, TAB, LF}

\* regex class [STAR HALF]
IsGlyph(c) == c \in {STAR, HALF}

\* regex . : any character except the line feed
IsDot(c) == c # LF

Prefix(s, k) == SubSeq(s, 1, k)
Suffix(s, k) == SubSeq(s, k + 1, Len(s))

\* The whole of s matches [STAR HALF]*
AllGlyphs(s) == \A i \in 1..Len(s) : IsGlyph(s[i])

\* The whole of s matches .*
AllDots(s) == \A i \in 1..Len(s) : IsDot(s[i])

\* All strings over the alphabet of length at most n
RECURSIVE StringsUpTo(_, _)
StringsUpTo(alphabet, n) ==
    IF n = 0 THEN {<<>>}
    ELSE LET shorter == StringsUpTo(alphabet, n - 1)
         IN  shorter \cup {Append(s, c) : s \in shorter, c \in alphabet}

-----------------------------------------------------------------------------
(* Title parsing: title_regex = ^(.*?)(\s-\s([STAR HALF]+))?$ *)

\* \s-\s([STAR HALF]+) matching the whole of rest
MatchesRatingGroup(rest) ==
    /\ Len(rest) >= 4
    /\ IsWhitespace(rest[1])
    /\ rest[2] = HYPHEN
    /\ IsWhitespace(rest[3])
    /\ AllGlyphs(Suffix(rest, 3))

\* Lengths of group 1 for which the whole pattern matches the whole title
TitleMatchLengths(raw) ==
    {k \in 0..Len(raw) :
        /\ AllDots(Prefix(raw, k))
        /\ \/ Suffix(raw, k) = <<>>
           \/ MatchesRatingGroup(Suffix(raw, k))}

Minimum(S) == CHOOSE m \in S : \A n \in S : m <= n

\* title_regex.captures(raw_title): None, or the groups 1 and 3 of the match
\* the lazy (.*?) settles on, the shortest group 1 that lets the rest match.
title_regex_captures(raw) ==
    LET lens == TitleMatchLengths(raw)
    IN  IF lens = {} THEN None
        ELSE LET k == Minimum(lens)
                 rest == Suffix(raw, k)
             IN  Some([g1 |-> Some(Prefix(raw, k)),
                       g3 |-> IF rest = <<>> THEN None ELSE Some(Suffix(rest, 3))])

\* Option<Match>.map_or("", |m| m.as_str())
MapOrEmpty(opt) == IF opt = None THEN <<>> ELSE opt[1]

\* The match expression computing (clean_title, rating_raw)
ParseTitle(raw) ==
    LET caps == title_regex_captures(raw)
    IN  IF caps # None
        THEN [title |-> MapOrEmpty(caps[1].g1), stars |-> MapOrEmpty(caps[1].g3)]
        ELSE [title |-> raw, stars |-> <<>>]

-----------------------------------------------------------------------------
(* Link normalizing: link_regex = letterboxd\.com/[^/]+/film/([^/]+)/       *)
(* A link is a sequence of tokens: "/" and pieces of text without a "/".    *)

SLASH == "/"
HOST == "letterboxd.com"
FILM == "film"

IsNotSlash(c) == c # SLASH

\* The end of the longest run of [^/] starting at position i (i - 1: no run)
RECURSIVE RunEnd(_, _)
RunEnd(s, i) == IF i <= Len(s) /\ IsNotSlash(s[i]) THEN RunEnd(s, i + 1) ELSE i - 1

TokenAt(s, i, c) == i <= Len(s) /\ s[i] = c

\* The pattern matched with its first token at position i: the slug, or None
LinkMatchAt(s, i) ==
    LET userEnd == RunEnd(s, i + 2)
        slugEnd == RunEnd(s, userEnd + 4)
    IN  IF /\ TokenAt(s, i, HOST)
           /\ TokenAt(s, i + 1, SLASH)
           /\ userEnd >= i + 2
           /\ TokenAt(s, userEnd + 1, SLASH)
           /\ TokenAt(s, userEnd + 2, FILM)
           /\ TokenAt(s, userEnd + 3, SLASH)
           /\ slugEnd >= userEnd + 4
           /\ TokenAt(s, slugEnd + 1, SLASH)
        THEN Some(SubSeq(s, userEnd + 4, slugEnd))
        ELSE None

\* A variant: the group is put around the username
link_regex_captures_user(s) ==
    LET starts == {i \in 1..Len(s) : LinkMatchAt(s, i) # None}
    IN  IF starts = {} THEN None
        ELSE LET i == Minimum(starts) IN Some(SubSeq(s, i + 2, RunEnd(s, i + 2)))

\* link_regex.captures(user_link): group 1 of the leftmost match, or None
link_regex_captures(s) ==
    LET starts == {i \in 1..Len(s) : LinkMatchAt(s, i) # None}
    IN  IF starts = {} THEN None ELSE LinkMatchAt(s, Minimum(starts))

HTTPS == <<"https:", SLASH, SLASH>>

\* format!("https://letterboxd.com/film/{}/", slug)
FormatFilmLink(slug) == HTTPS \o <<HOST, SLASH, FILM, SLASH>> \o slug \o <<SLASH>>

\* The match expression computing general_link
NormalizeLink(user_link) ==
    LET caps == link_regex_captures(user_link)
    IN  IF caps # None THEN FormatFilmLink(caps[1]) ELSE user_link

-----------------------------------------------------------------------------
(* Rating scorer.  A score is an f32 holding a multiple of one half; the    *)
(* model keeps twice its value, an integer.                                 *)

Count(s, c) == Cardinality({i \in 1..Len(s) : s[i] = c})

Contains(s, c) == \E i \in 1..Len(s) : s[i] = c

\* calculate_score, doubled
calculate_score(raw) ==
    LET full_stars == 2 * Count(raw, STAR)
        half_star == IF Contains(raw, HALF) THEN 1 ELSE 0
    IN  full_stars + half_star

TOP == "top"
HIGH == "high"
MID == "mid"
LOW == "low"
BOTTOM == "bottom"
UNKNOWN == "unknown"

\* A variant: the four thresholds are exclusive
get_reaction_emoji_strict(score) ==
    IF score = 10 THEN TOP
    ELSE IF score > 8 THEN HIGH
    ELSE IF score > 6 THEN MID
    ELSE IF score > 4 THEN LOW
    ELSE IF score > 0 THEN BOTTOM
    ELSE UNKNOWN

\* get_reaction_emoji, on the doubled score
get_reaction_emoji(score) ==
    IF score = 10 THEN TOP
    ELSE IF score >= 8 THEN HIGH
    ELSE IF score >= 6 THEN MID
    ELSE IF score >= 4 THEN LOW
    ELSE IF score > 0 THEN BOTTOM
    ELSE UNKNOWN

-----------------------------------------------------------------------------
(* The run: main and get_movie_map *)

\* Duration::days(7), in seconds
SevenDays == 7 * 24 * 60 * 60

Hour == 60 * 60

EmptyMap == [k \in {} |-> k]

Keys(map) == DOMAIN map

\* str::trim
RECURSIVE TrimStart(_)
TrimStart(s) == IF s # <<>> /\ IsWhitespace(Head(s)) THEN TrimStart(Tail(s)) ELSE s

RECURSIVE TrimEnd(_)
TrimEnd(s) ==
    IF s # <<>> /\ IsWhitespace(s[Len(s)]) THEN TrimEnd(Prefix(s, Len(s) - 1)) ELSE s

Trim(s) == TrimEnd(TrimStart(s))

\* StringRecord::get(i), i counted from 0
Get(record, i) == IF i + 1 <= Len(record) THEN Some(record[i + 1]) ELSE None

\* Option::unwrap_or
UnwrapOr(opt, default) == IF opt = None THEN default ELSE opt[1]

UnknownFriend == <<"U", "n", "k", "n", "o", "w", "n">>
UnknownMovie == <<"U", "n", "k", "n", "o", "w", "n", SPACE, "M", "o", "v", "i", "e">>

\* DateTime::parse_from_rfc2822 followed by with_timezone(&Utc): the instant
\* of a date given as a local time and the offset of its zone from UTC
\* A pubDate string: whether it is RFC 2822 and, if so, the local time and the
\* zone offset it states
BAD_DATE == [rfc2822 |-> FALSE, local |-> 0, offset |-> 0]
Date(local, offset) == [rfc2822 |-> TRUE, local |-> local, offset |-> offset]

\* DateTime::parse_from_rfc2822(pub_date_str).is_ok()
IsParsable(pub_date_str) == pub_date_str.rfc2822

\* pub_date.with_timezone(&Utc): the instant
ToUtc(date) == date.local - date.offset

\* A variant: an item exactly at the limit is left out
InWindowStrict(pub_date, limit) ==
    /\ pub_date # None
    /\ IsParsable(pub_date[1])
    /\ ToUtc(pub_date[1]) > limit

\* The three nested conditions of lines 132 to 134
InWindow(pub_date, limit) ==
    /\ pub_date # None
    /\ IsParsable(pub_date[1])
    /\ ToUtc(pub_date[1]) >= limit

\* A variant: a friend already in the group is not added again
UpsertPerFriend(map, clean_title, entry, general_link) ==
    IF clean_title \in Keys(map)
    THEN IF \E i \in 1..Len(map[clean_title].reviews) :
                map[clean_title].reviews[i].friend_name = entry.friend_name
         THEN map
         ELSE [map EXCEPT ![clean_title].reviews = Append(@, entry)]
    ELSE map @@ (clean_title :> [general_link |-> general_link, reviews |-> <<entry>>])

\* A variant: an append also replaces the group's link
UpsertRelink(map, clean_title, entry, general_link) ==
    IF clean_title \in Keys(map)
    THEN [map EXCEPT ![clean_title] =
             [general_link |-> general_link, reviews |-> Append(@.reviews, entry)]]
    ELSE map @@ (clean_title :> [general_link |-> general_link, reviews |-> <<entry>>])

\* movie_map.entry(clean_title).and_modify(push).or_insert(MovieGroup {..})
Upsert(map, clean_title, entry, general_link) ==
    IF clean_title \in Keys(map)
    THEN [map EXCEPT ![clean_title].reviews = Append(@, entry)]
    ELSE map @@ (clean_title :> [general_link |-> general_link, reviews |-> <<entry>>])

\* The body of the loop over channel.items(), for one item
AddItem(map, name, it, limit) ==
    IF InWindow(it.pub_date, limit)
    THEN LET raw_title == UnwrapOr(it.title, UnknownMovie)
             user_link == UnwrapOr(it.link, <<>>)
             parsed == ParseTitle(raw_title)
             general_link == NormalizeLink(user_link)
             entry == [friend_name |-> name, rating_raw |-> parsed.stars]
         IN  Upsert(map, parsed.title, entry, general_link)
    ELSE map

-----------------------------------------------------------------------------
(* Rendering: create_message.  A message is a sequence of lines, each line  *)
(* the tuple of the format string's name and its arguments.                 *)

CodePoint(c) ==
    CASE c = TAB -> 9 [] c = LF -> 10 [] c = SPACE -> 32 [] c = STAR -> 9733
      [] c = HYPHEN -> 45 [] c = "D" -> 68 [] c = "M" -> 77 [] c = "U" -> 85
      [] c = "a" -> 97 [] c = "e" -> 101 [] c = HALF -> 189 [] c = "i" -> 105
      [] c = "k" -> 107 [] c = "n" -> 110 [] c = "o" -> 111 [] c = "u" -> 117
      [] c = "v" -> 118 [] c = "w" -> 119

\* Ord for String: byte-wise on UTF-8, which is the order of the code points
RECURSIVE StrLess(_, _)
StrLess(a, b) ==
    IF b = <<>> THEN FALSE
    ELSE IF a = <<>> THEN TRUE
    ELSE IF Head(a) # Head(b) THEN CodePoint(Head(a)) < CodePoint(Head(b))
    ELSE StrLess(Tail(a), Tail(b))

RECURSIVE InsertSorted(_, _)
InsertSorted(sorted, x) ==
    IF sorted = <<>> THEN <<x>>
    ELSE IF StrLess(x, Head(sorted)) THEN <<x>> \o sorted
    ELSE <<Head(sorted)>> \o InsertSorted(Tail(sorted), x)

RECURSIVE SortFrom(_, _)
SortFrom(sorted, rest) ==
    IF rest = <<>> THEN sorted ELSE SortFrom(InsertSorted(sorted, Head(rest)), Tail(rest))

\* A variant: the keys stay in the order the map iterates in
Unsorted(keys) == keys

\* sorted_movies.sort()
Sort(keys) == SortFrom(<<>>, keys)

NO_MOVIES == <<"No movies watched this week">>
ROUND_UP == <<"Weekly Movie Round-up">>

\* The line pushed for one review
ReviewLine(review) ==
    IF review.rating_raw = <<>>
    THEN <<"watched", review.friend_name>>
    ELSE LET score == calculate_score(review.rating_raw)
             emoji == get_reaction_emoji(score)
         IN  <<"rated", review.friend_name, review.rating_raw, emoji>>

\* The lines pushed for one movie
MovieBlock(movie, group) ==
    <<<<"movie", movie, group.general_link>>>>
    \o [i \in 1..Len(group.reviews) |-> ReviewLine(group.reviews[i])]
    \o <<<<"blank">>>>

RECURSIVE Blocks(_, _)
Blocks(map, movies) ==
    IF movies = <<>> THEN <<>>
    ELSE MovieBlock(Head(movies), map[Head(movies)]) \o Blocks(map, Tail(movies))

\* create_message(movie_map), the map's keys() iterating in the order `keys`
create_message(map, keys) ==
    IF Keys(map) = {} THEN <<NO_MOVIES>>
    ELSE <<ROUND_UP>> \o Blocks(map, Sort(keys))

\* The orders in which a HashMap's keys() may iterate
KeyOrders(map) ==
    {order \in [1..Cardinality(Keys(map)) -> Keys(map)] :
        \A i, j \in DOMAIN order : i # j => order[i] # order[j]}

-----------------------------------------------------------------------------
(* Specification Spec: one run of the program.  The roster rows, the feeds  *)
(* and the outcomes of the network calls are inputs, drawn when read.       *)

MaxRows == 2
MaxItems == 3

FriendNames == {<<"A">>, <<SPACE, "A">>, <<"B">>}

\* The data records of the roster.  The csv reader is not flexible: every
\* record has as many fields as the header record.
Records(w) ==
    IF w = 1 THEN {<<name>> : name \in FriendNames}
    ELSE {<<name, <<"u">>>> : name \in FriendNames}

Clock == {SevenDays + 2 * Hour}

DuneLink(user) == HTTPS \o <<HOST, SLASH>> \o user \o <<SLASH, FILM, SLASH, "dune", SLASH>>

\* The title and the link of a feed item
ItemShapes ==
    {[title |-> Some(<<"D", "u", SPACE, HYPHEN, SPACE, STAR, STAR, STAR, STAR>>),
      link |-> Some(DuneLink(<<"alice">>))],
     [title |-> Some(<<"D", "u">>), link |-> Some(HTTPS \o <<"boxd.it", SLASH, "x">>)],
     [title |-> Some(<<"a", SPACE, HYPHEN, SPACE, HALF>>), link |-> Some(<<>>)],
     [title |-> None, link |-> None]}

\* pubDate: absent, not RFC 2822, one second before the limit (stated in a
\* zone one hour east of UTC), exactly at the limit
PubDates(t) ==
    {None,
     Some(BAD_DATE),
     Some(Date(t - SevenDays + Hour - 1, Hour)),
     Some(Date(t - SevenDays, 0))}

Items(t) ==
    {[title |-> shape.title, link |-> shape.link, pub_date |-> d] :
        shape \in ItemShapes, d \in PubDates(t)}

\* The run's variables before main starts
RunIdle ==
    /\ pc = "start"
    /\ width = 0
    /\ now = 0
    /\ seven_days_ago = 0
    /\ movie_map = EmptyMap
    /\ friend_name = <<>>
    /\ result = None
    /\ rowsRead = 0
    /\ itemsRead = 0
    /\ fetches = 0
    /\ failedFeeds = 0
    /\ log = <<>>
    /\ item = None
    /\ message = None
    /\ sent = None

Init ==
    /\ RunIdle
    /\ input = None
    /\ output = None

Ok == [ok |-> TRUE, err |-> "none"]
Err(e) == [ok |-> FALSE, err |-> e]

\* Line 116: the roster cannot be fetched, get_movie_map returns the error
RosterFetchFails ==
    /\ pc = "start"
    /\ pc' = "returned"
    /\ result' = Some(Err("roster fetch"))
    /\ UNCHANGED <<pureVars, width, now, seven_days_ago, movie_map, friend_name, rowsRead,
                   itemsRead, fetches, failedFeeds, log, item, message, sent>>

\* Lines 116 to 120: the roster is fetched, the reader, the map and the limit set up
RosterFetched ==
    /\ pc = "start"
    /\ \E w \in {1, 2}, t \in Clock :
           /\ width' = w
           /\ now' = t
           /\ seven_days_ago' = t - SevenDays
    /\ movie_map' = EmptyMap
    /\ pc' = "rows"
    /\ UNCHANGED <<pureVars, friend_name, result, rowsRead, itemsRead, fetches, failedFeeds,
                   log, item, message, sent>>

\* The errors the reader may yield for a record: it is not UTF-8, or it has
\* more fields than the header record, or fewer, that is one where two are due
ReaderErrors(w) ==
    {"utf-8", "long record"} \cup (IF w = 2 THEN {"short record"} ELSE {})

\* Line 123: the reader yields an error for the next record
RecordError ==
    /\ pc = "rows"
    /\ rowsRead < MaxRows
    /\ rowsRead' = rowsRead + 1
    /\ pc' = "returned"
    /\ \E e \in ReaderErrors(width) : result' = Some(Err(e))
    /\ friend_name' = <<>>
    /\ item' = None
    /\ UNCHANGED <<pureVars, width, now, seven_days_ago, movie_map, itemsRead,
                   fetches, failedFeeds, log, message, sent>>

\* Lines 124 to 125: the next record has no second field
MissingUsername ==
    /\ pc = "rows"
    /\ rowsRead < MaxRows
    /\ \E record \in Records(width) : Get(record, 1) = None
    /\ rowsRead' = rowsRead + 1
    /\ pc' = "returned"
    /\ result' = Some(Err("No username"))
    /\ friend_name' = <<>>
    /\ item' = None
    /\ UNCHANGED <<pureVars, width, now, seven_days_ago, movie_map, itemsRead, fetches,
                   failedFeeds, log, message, sent>>

\* A variant: the error of fetch_and_parse_feed is returned with ?
FeedFailedAborts ==
    /\ pc = "rows"
    /\ rowsRead < MaxRows
    /\ \E record \in Records(width) : Get(record, 1) # None
    /\ friend_name' = <<>>
    /\ rowsRead' = rowsRead + 1
    /\ fetches' = fetches + 1
    /\ failedFeeds' = failedFeeds + 1
    /\ pc' = "returned"
    /\ result' = Some(Err("feed"))
    /\ UNCHANGED <<pureVars, width, now, seven_days_ago, movie_map, itemsRead, log, item, message, sent>>

\* Lines 124 to 130, fetch_and_parse_feed returning Err: the row is skipped
FeedFailed ==
    /\ pc = "rows"
    /\ rowsRead < MaxRows
    /\ \E record \in Records(width) : Get(record, 1) # None
    /\ friend_name' = <<>>
    /\ rowsRead' = rowsRead + 1
    /\ fetches' = fetches + 1
    /\ failedFeeds' = failedFeeds + 1
    /\ pc' = "rows"
    /\ UNCHANGED <<pureVars, width, now, seven_days_ago, movie_map, result, itemsRead, log, item,
                   message, sent>>

\* Lines 124 to 130, fetch_and_parse_feed returning Ok(channel)
FeedFetched ==
    /\ pc = "rows"
    /\ rowsRead < MaxRows
    /\ \E record \in Records(width) :
           /\ Get(record, 1) # None
           /\ friend_name' = Trim(UnwrapOr(Get(record, 0), UnknownFriend))
    /\ rowsRead' = rowsRead + 1
    /\ fetches' = fetches + 1
    /\ pc' = "items"
    /\ UNCHANGED <<pureVars, width, now, seven_days_ago, movie_map, result, itemsRead,
                   failedFeeds, log, item, message, sent>>

\* The item is published at or after now minus seven days
PublishedInWindow(it, t) ==
    /\ it.pub_date # None
    /\ it.pub_date[1].rfc2822
    /\ it.pub_date[1].local - it.pub_date[1].offset + SevenDays >= t

\* Lines 131 to 168: the loop body for the next item of the channel
TakeItem(it) ==
    /\ pc = "items"
    /\ itemsRead < MaxItems
    /\ itemsRead' = itemsRead + 1
    /\ movie_map' = AddItem(movie_map, friend_name, it, seven_days_ago)
    /\ log' = IF PublishedInWindow(it, now)
              THEN Append(log, [friend |-> friend_name, title |-> it.title, link |-> it.link])
              ELSE log
    /\ item' = Some(it)
    /\ UNCHANGED <<pureVars, pc, width, now, seven_days_ago, friend_name, result, rowsRead,
                   fetches, failedFeeds, message, sent>>

NextItem == \E it \in Items(now) : TakeItem(it)

\* Line 169: the channel has no further item
FeedEnd ==
    /\ pc = "items"
    /\ pc' = "rows"
    /\ friend_name' = <<>>
    /\ item' = None
    /\ UNCHANGED <<pureVars, width, now, seven_days_ago, movie_map, result,
                   rowsRead, itemsRead, fetches, failedFeeds, log, message, sent>>

\* Lines 171 to 173: the reader has no further record
RosterEnd ==
    /\ pc = "rows"
    /\ pc' = "returned"
    /\ result' = Some(Ok)
    /\ friend_name' = <<>>
    /\ item' = None
    /\ UNCHANGED <<pureVars, width, now, seven_days_ago, movie_map, rowsRead,
                   itemsRead, fetches, failedFeeds, log, message, sent>>

\* A variant: the aggregate built before the error is kept
UnwrapAnyway(res, map) == map

\* Result::unwrap_or_default on what get_movie_map returned
UnwrapOrDefault(res, map) == IF res.ok THEN map ELSE EmptyMap

\* main, lines 29 to 31: the map, or the default map, is rendered
CreateMessage ==
    /\ pc = "returned"
    /\ movie_map' = UnwrapOrDefault(result[1], movie_map)
    /\ \E order \in KeyOrders(movie_map') : message' = Some(create_message(movie_map', order))
    /\ pc' = "rendered"
    /\ UNCHANGED <<pureVars, width, now, seven_days_ago, friend_name, result, rowsRead,
                   itemsRead, fetches, failedFeeds, log, item, sent>>

\* main, line 33: send_whatsapp returns the message id
Send ==
    /\ pc = "rendered"
    /\ sent' = message
    /\ pc' = "sent"
    /\ UNCHANGED <<pureVars, width, now, seven_days_ago, movie_map, friend_name, result,
                   rowsRead, itemsRead, fetches, failedFeeds, log, item, message>>

\* main, line 33: send_whatsapp returns an error, and main returns it
SendFails ==
    /\ pc = "rendered"
    /\ pc' = "failed"
    /\ UNCHANGED <<pureVars, width, now, seven_days_ago, movie_map, friend_name, result,
                   rowsRead, itemsRead, fetches, failedFeeds, log, item, message, sent>>

\* main, lines 35 to 39: the message is pinned, the presence set, main returns Ok
PinAndPresence ==
    /\ pc = "sent"
    /\ pc' = "done"
    /\ UNCHANGED <<pureVars, width, now, seven_days_ago, movie_map, friend_name, result,
                   rowsRead, itemsRead, fetches, failedFeeds, log, item, message, sent>>

\* main, lines 35 to 37: pin_message or set_presence_offline returns an error
PinOrPresenceFails ==
    /\ pc = "sent"
    /\ pc' = "failed"
    /\ UNCHANGED <<pureVars, width, now, seven_days_ago, movie_map, friend_name, result,
                   rowsRead, itemsRead, fetches, failedFeeds, log, item, message, sent>>

Next ==
    \/ RosterFetchFails
    \/ RosterFetched
    \/ RecordError
    \/ MissingUsername
    \/ FeedFailed
    \/ FeedFetched
    \/ NextItem
    \/ FeedEnd
    \/ RosterEnd
    \/ CreateMessage
    \/ Send
    \/ SendFails
    \/ PinAndPresence
    \/ PinOrPresenceFails

Spec == Init /\ [][Next]_vars

-----------------------------------------------------------------------------
(* Specification SpecTitle: the title parsing step applied to one raw title *)

MaxStemLen == 2
MaxStars == 2

TitleChars == {"a", SPACE, TAB, LF, HYPHEN, STAR, HALF}
Whitespace == {SPACE, TAB, LF}

GlyphRuns == StringsUpTo({STAR, HALF}, MaxStars)

\* A separator followed by a possibly empty run of glyphs, or nothing
Tails == {<<>>} \cup {<<w1, HYPHEN, w2>> \o g : w1 \in Whitespace, w2 \in Whitespace, g \in GlyphRuns}

RawTitles == {stem \o t1 \o t2 : stem \in StringsUpTo(TitleChars, MaxStemLen), t1 \in Tails, t2 \in Tails}

InitTitle ==
    /\ RunIdle
    /\ input \in RawTitles
    /\ output = None

ParseTitleStep ==
    /\ output = None
    /\ output' = Some(ParseTitle(input))
    /\ UNCHANGED <<input, runVars>>

NextTitle == ParseTitleStep

SpecTitle == InitTitle /\ [][NextTitle]_vars

-----------------------------------------------------------------------------
(* Claims about the title parsing step *)

\* s ends with the literal " - " followed by a non-empty run of rating glyphs
HasStarSuffix(s) ==
    \E k \in 0..(Len(s) - 4) :
        /\ SubSeq(s, k + 1, k + 3) = <<SPACE, HYPHEN, SPACE>>
        /\ AllGlyphs(Suffix(s, k + 3))

\* The reference grammar: T, " - ", S with S a non-empty glyph run and T
\* without such a suffix gives (T, S); every other title gives (title, "").
GrammarSplits(raw) ==
    {k \in 0..(Len(raw) - 4) :
        /\ SubSeq(raw, k + 1, k + 3) = <<SPACE, HYPHEN, SPACE>>
        /\ AllGlyphs(Suffix(raw, k + 3))
        /\ ~HasStarSuffix(Prefix(raw, k))}

GrammarParse(raw) ==
    IF GrammarSplits(raw) # {}
    THEN LET k == CHOOSE k \in GrammarSplits(raw) : TRUE
         IN  [title |-> Prefix(raw, k), stars |-> Suffix(raw, k + 3)]
    ELSE [title |-> raw, stars |-> <<>>]

\* C2: for every raw title the title parsing step returns what the reference
\* grammar gives: (T, S) for T followed by " - " and a non-empty glyph run S,
\* T without such a suffix, and (title unchanged, empty rating) for every
\* other title, which re-parses to the same result.
C2_ParserEqualsGrammar ==
    output # None =>
        /\ output[1] = GrammarParse(input)
        /\ (GrammarSplits(input) = {} => ParseTitle(output[1].title) = output[1])

\* C8: the clean title the title parsing step produces never ends with " - "
\* followed by a non-empty run of rating glyphs, whatever the raw title.
C8_CleanTitleHasNoStarSuffix ==
    output # None => ~HasStarSuffix(output[1].title)

-----------------------------------------------------------------------------
(* Specification SpecLink: the link normalizing step applied to one link *)

MaxSegments == 4

Schemes == {HTTPS, <<"http:", SLASH, SLASH>>}
Hosts == {<<HOST>>, <<"www.", HOST>>, <<"boxd.it">>}
Segments == {<<"alice">>, <<"bob">>, <<FILM>>, <<"dune">>, <<>>}

RECURSIVE PathsUpTo(_)
PathsUpTo(n) ==
    IF n = 0 THEN {<<>>}
    ELSE LET shorter == PathsUpTo(n - 1)
         IN  shorter \cup {p \o <<SLASH>> \o seg : p \in shorter, seg \in Segments}

UserLinks ==
    {scheme \o host \o path \o tail :
        scheme \in Schemes, host \in Hosts, path \in PathsUpTo(MaxSegments),
        tail \in {<<>>, <<SLASH>>}}

InitLink ==
    /\ RunIdle
    /\ input \in UserLinks
    /\ output = None

NormalizeLinkStep ==
    /\ output = None
    /\ output' = Some(NormalizeLink(input))
    /\ UNCHANGED <<input, runVars>>

NextLink == NormalizeLinkStep

SpecLink == InitLink /\ [][NextLink]_vars

\* The link is <prefix>/<username>/film/<slug>/ with the prefix on the feed
\* provider's domain: a scheme and a host name ending in letterboxd.com.
PrefixesOf(link) ==
    {k \in 1..(Len(link) - 7) :
        /\ \E scheme \in Schemes, host \in Hosts :
               Prefix(link, k) = scheme \o host /\ host[Len(host)] = HOST
        /\ link[k + 1] = SLASH /\ link[k + 2] # SLASH /\ link[k + 3] = SLASH
        /\ link[k + 4] = FILM /\ link[k + 5] = SLASH
        /\ link[k + 6] # SLASH /\ link[k + 7] = SLASH
        /\ Len(link) = k + 7}

WithoutUsername(link, k) == Prefix(link, k) \o Suffix(link, k + 2)

\* C6 as stated: a link of the shape <prefix>/<username>/film/<slug>/ comes
\* back with only the username segment removed, any other link unchanged.
C6_OnlyUsernameRemoved ==
    output # None =>
        IF PrefixesOf(input) # {}
        THEN \A k \in PrefixesOf(input) : output[1] = WithoutUsername(input, k)
        ELSE output[1] = input

\* The slugs of the occurrences of letterboxd.com/<username>/film/<slug>/
\* that start at position i of the link
SlugsAt(link, i) ==
    {SubSeq(link, ue + 4, se) : <<ue, se>> \in
        {w \in (1..Len(link)) \X (1..Len(link)) :
            /\ w[1] >= i + 2
            /\ w[2] >= w[1] + 4
            /\ w[2] < Len(link)
            /\ link[i] = HOST
            /\ link[i + 1] = SLASH
            /\ \A j \in (i + 2)..w[1] : link[j] # SLASH
            /\ link[w[1] + 1] = SLASH
            /\ link[w[1] + 2] = FILM
            /\ link[w[1] + 3] = SLASH
            /\ \A j \in (w[1] + 4)..w[2] : link[j] # SLASH
            /\ link[w[2] + 1] = SLASH}}

OccurrenceStarts(link) == {i \in 1..Len(link) : SlugsAt(link, i) # {}}

\* C6 as amended: a link containing letterboxd.com/<username>/film/<slug>/
\* comes back as https://letterboxd.com/film/<slug>/ for its first occurrence,
\* whatever precedes or follows the occurrence; when the link is exactly
\* https://letterboxd.com/<username>/film/<slug>/ that is the link with only
\* the username segment removed; a link with no occurrence comes back unchanged.
C6_CanonicalFilmLink ==
    output # None =>
        /\ OccurrenceStarts(input) = {} => output[1] = input
        /\ OccurrenceStarts(input) # {} =>
               \E slug \in SlugsAt(input, Minimum(OccurrenceStarts(input))) :
                   output[1] = HTTPS \o <<HOST, SLASH, FILM, SLASH>> \o slug \o <<SLASH>>
        /\ \A k \in PrefixesOf(input) :
               Prefix(input, k) = HTTPS \o <<HOST>> => output[1] = WithoutUsername(input, k)

\* A link of the exact shape has been normalized and has lost its username
C6_Witness ==
    /\ output # None
    /\ input = HTTPS \o <<HOST, SLASH, "alice", SLASH, FILM, SLASH, "dune", SLASH>>
    /\ output[1] = HTTPS \o <<HOST, SLASH, FILM, SLASH, "dune", SLASH>>

-----------------------------------------------------------------------------
(* Specification SpecScore: the scorer applied to one rating token *)

MaxTokenLen == 6

RatingTokens == StringsUpTo({STAR, HALF, "a"}, MaxTokenLen)

InitScore ==
    /\ RunIdle
    /\ input \in RatingTokens
    /\ output = None

ScoreStep ==
    /\ output = None
    /\ LET score == calculate_score(input)
       IN  output' = Some([score |-> score, emoji |-> get_reaction_emoji(score)])
    /\ UNCHANGED <<input, runVars>>

NextScore == ScoreStep

SpecScore == InitScore /\ [][NextScore]_vars

RECURSIVE StarsIn(_)
StarsIn(s) == IF s = <<>> THEN 0 ELSE (IF Head(s) = STAR THEN 1 ELSE 0) + StarsIn(Tail(s))

\* The symbol table of section 4.3, on the number of full stars and the half
SymbolFor(stars, half) ==
    CASE stars = 5 /\ ~half -> TOP
      [] stars >= 4 /\ ~(stars = 5 /\ ~half) -> HIGH
      [] stars = 3 -> MID
      [] stars = 2 -> LOW
      [] stars = 1 \/ (stars = 0 /\ half) -> BOTTOM
      [] stars = 0 /\ ~half -> UNKNOWN

\* C7: the score is the number of full stars plus one half when a half-star
\* glyph is present, and the symbol is the first match of: 5.0 top, >= 4.0
\* high, >= 3.0 mid, >= 2.0 low, > 0.0 bottom, 0.0 unknown.
C7_ScoreAndSymbol ==
    output # None =>
        LET stars == StarsIn(input)
            half == HALF \in {input[i] : i \in 1..Len(input)}
        IN  /\ output[1].score = 2 * stars + (IF half THEN 1 ELSE 0)
            /\ output[1].emoji = SymbolFor(stars, half)

\* The token of two full stars has been scored 2.0 and given the low symbol
C7_Witness ==
    /\ output # None
    /\ input = <<STAR, STAR>>
    /\ output[1] = [score |-> 4, emoji |-> LOW]

-----------------------------------------------------------------------------
(* Claims about the run *)

\* get_movie_map is running or has just returned: movie_map is the aggregate
Aggregating == pc \in {"rows", "items", "returned"}

CleanTitleOf(e) == ParseTitle(UnwrapOr(e.title, UnknownMovie)).title
RatingOf(e) == ParseTitle(UnwrapOr(e.title, UnknownMovie)).stars

\* The in-window items consumed so far whose clean title is k, in order
ItemsTitled(k) == SelectSeq(log, LAMBDA e : CleanTitleOf(e) = k)

\* C1: every group's review list holds exactly the in-window items whose
\* clean title is the group's key, in processing order, and the group's link
\* is the normalized link of the first of them, the item that created it.
C1_GroupsFollowProcessingOrder ==
    Aggregating =>
        /\ Keys(movie_map) = {CleanTitleOf(log[i]) : i \in 1..Len(log)}
        /\ \A k \in Keys(movie_map) :
               LET items == ItemsTitled(k)
               IN  /\ movie_map[k].reviews =
                          [i \in 1..Len(items) |->
                              [friend_name |-> items[i].friend, rating_raw |-> RatingOf(items[i])]]
                   /\ movie_map[k].general_link = NormalizeLink(UnwrapOr(items[1].link, <<>>))

\* Two friends reviewed the same clean title: one group, two entries in the
\* order of the friends, the link that of the first item
C1_Witness ==
    /\ Aggregating
    /\ Len(log) = 2
    /\ log[1].link = Some(HTTPS \o <<"boxd.it", SLASH, "x">>)
    /\ log[2].link = Some(DuneLink(<<"alice">>))
    /\ Keys(movie_map) = {<<"D", "u">>}
    /\ movie_map[<<"D", "u">>] =
           [general_link |-> HTTPS \o <<"boxd.it", SLASH, "x">>,
            reviews |-> <<[friend_name |-> <<"A">>, rating_raw |-> <<>>],
                          [friend_name |-> <<"B">>, rating_raw |-> <<STAR, STAR, STAR, STAR>>]>>]

RECURSIVE TotalReviews(_, _)
TotalReviews(map, keys) ==
    IF keys = {} THEN 0
    ELSE LET k == CHOOSE k \in keys : TRUE
         IN  Len(map[k].reviews) + TotalReviews(map, keys \ {k})

Entries(map) == TotalReviews(map, Keys(map))

\* C3: the loop body adds an item to the aggregate if and only if its publish
\* date parses and is at or after now minus 7 days; otherwise the aggregate
\* is left as it was.
C3_AddedIffInWindow ==
    [][\A it \in Items(now) :
           TakeItem(it) =>
               IF PublishedInWindow(it, now)
               THEN Entries(movie_map') = Entries(movie_map) + 1
               ELSE movie_map' = movie_map]_vars

\* An item published exactly at now minus 7 days has been added, as the first
C3_Witness ==
    /\ item # None
    /\ item[1].pub_date = Some(Date(now - SevenDays, 0))
    /\ itemsRead = 1
    /\ Entries(movie_map) = 1
    /\ pc = "items"

\* C4: a call of fetch_and_parse_feed that fails is the only one for its row,
\* leaves the aggregate as it was and get_movie_map in its loop over the
\* roster, at the next row, without a result: the failed feed aborts nothing.
C4_FailedFeedIsSkipped ==
    [][failedFeeds' # failedFeeds =>
           /\ movie_map' = movie_map
           /\ pc = "rows" /\ pc' = "rows"
           /\ result' = None
           /\ rowsRead' = rowsRead + 1
           /\ fetches' = fetches + 1
           /\ fetches' <= rowsRead']_vars

\* The first row's feed failed, and the second row's items are being added
C4_Witness ==
    /\ pc = "items"
    /\ failedFeeds = 1
    /\ rowsRead = 2
    /\ fetches = 2
    /\ Len(log) >= 1
    /\ movie_map # EmptyMap

\* a precedes b in the order of the code points
LexLess(a, b) ==
    \E i \in 1..Len(b) :
        /\ \A j \in 1..(i - 1) : j <= Len(a) /\ a[j] = b[j]
        /\ IF i <= Len(a) THEN CodePoint(a[i]) < CodePoint(b[i]) ELSE i = Len(a) + 1

\* The key that i - 1 keys precede
KeyOfRank(map, i) ==
    CHOOSE k \in Keys(map) : Cardinality({j \in Keys(map) : LexLess(j, k)}) = i - 1

ExpectedLine(review) ==
    IF Len(review.rating_raw) = 0
    THEN <<"watched", review.friend_name>>
    ELSE <<"rated", review.friend_name, review.rating_raw,
           get_reaction_emoji(calculate_score(review.rating_raw))>>

RECURSIVE ExpectedBlocks(_, _)
ExpectedBlocks(map, i) ==
    IF i > Cardinality(Keys(map)) THEN <<>>
    ELSE LET k == KeyOfRank(map, i)
         IN  <<<<"movie", k, map[k].general_link>>>>
             \o [r \in 1..Len(map[k].reviews) |-> ExpectedLine(map[k].reviews[r])]
             \o <<<<"blank">>>>
             \o ExpectedBlocks(map, i + 1)

\* C5: the message is the fixed sentence for an empty aggregate; otherwise one
\* block per title in ascending order of the titles, whatever the order the
\* map iterates in, each with one line per review in stored order, "watched"
\* exactly when the rating is empty, else "rated" with token and symbol.
C5_MessageIsSortedBlocks ==
    pc = "rendered" =>
        message = Some(IF Keys(movie_map) = {} THEN <<NO_MOVIES>>
                       ELSE <<ROUND_UP>> \o ExpectedBlocks(movie_map, 1))

\* Three titles, the first one added not the least, have been rendered
C5_Witness ==
    /\ pc = "rendered"
    /\ Cardinality(Keys(movie_map)) = 3
    /\ log[1].title = None
    /\ message[1][2][2] = <<"D", "u">>
    /\ \E i \in 1..Len(message[1]) : message[1][i][1] = "rated"
    /\ \E i \in 1..Len(message[1]) : message[1][i][1] = "watched"

\* C9 as stated: no group holds two entries of the same friend
C9_OneEntryPerFriend ==
    Aggregating =>
        \A k \in Keys(movie_map) :
            \A i, j \in 1..Len(movie_map[k].reviews) :
                i # j => movie_map[k].reviews[i].friend_name # movie_map[k].reviews[j].friend_name

\* C9 as amended: a group holds one entry per in-window item of its title, so
\* a friend has as many entries in it as in-window items of that title were
\* consumed under the friend's name: several for several such items.
C9_OneEntryPerItem ==
    Aggregating =>
        \A k \in Keys(movie_map) :
            \A f \in {Trim(name) : name \in FriendNames} :
                Cardinality({i \in 1..Len(movie_map[k].reviews) :
                                 movie_map[k].reviews[i].friend_name = f})
                = Cardinality({i \in 1..Len(log) : log[i].friend = f /\ CleanTitleOf(log[i]) = k})

\* One friend's feed had two in-window items of one clean title
C9_Witness ==
    /\ Aggregating
    /\ rowsRead = 1
    /\ <<"D", "u">> \in Keys(movie_map)
    /\ Len(movie_map[<<"D", "u">>].reviews) = 2
    /\ movie_map[<<"D", "u">>].reviews[1].friend_name = movie_map[<<"D", "u">>].reviews[2].friend_name

\* get_movie_map returned the error of a row without its username: the reader
\* rejected the short record (line 123) or the record has no field 1 (line 125)
MissingUsernameError ==
    /\ result # None
    /\ ~result[1].ok
    /\ result[1].err \in {"short record", "No username"}

\* C10 as stated: on a row without its username the whole run aborts: nothing
\* is sent to the delivery sink, and main does not get past the sending.
C10_RunAborts ==
    MissingUsernameError =>
        /\ sent = None
        /\ pc \notin {"sent", "done"}

\* C10 as amended: on a row without its username get_movie_map stops at that
\* row with an error and no later row is fetched; main goes on with an empty
\* aggregate, so that nothing of the rows is rendered: the fixed sentence is
\* the message, and it is what the delivery sink receives.
C10_EmptyDigestSent ==
    MissingUsernameError =>
        /\ pc \notin {"rows", "items"}
        /\ fetches = rowsRead - 1
        /\ pc # "returned" => movie_map = EmptyMap /\ message = Some(<<NO_MOVIES>>)
        /\ sent \in {None, Some(<<NO_MOVIES>>)}
        /\ pc \in {"sent", "done"} => sent = Some(<<NO_MOVIES>>)

\* After a row with reviews, a row without its username; the sentence is sent
C10_Witness ==
    /\ MissingUsernameError
    /\ Len(log) >= 1
    /\ rowsRead = 2
    /\ pc = "done"
    /\ sent = Some(<<NO_MOVIES>>)

=============================================================================
